---- MODULE Spec2Model ----
(***************************************************************************)
(* Model of trufflehog.py: the GitHubScanner credential pool, the scan     *)
(* invoker, the finding processor, the Telegram notifier, the per-domain   *)
(* retry loop and the cycle scheduler.                                     *)
(*                                                                         *)
(* Text values (detector names, file paths, commit links) are represented  *)
(* by their length in characters: the code only tests them for emptiness   *)
(* and measures the length of the message they are formatted into.         *)
(***************************************************************************)
EXTENDS Integers, Sequences, FiniteSets, TLC

\* ---------------------------------------------------------------- settings
MAX_RETRIES_PER_DOMAIN == 3
PAT_COOLDOWN == 300
RUN_DURATION == 21600
BREAK_DURATION == 3600
ENGINE_TIMEOUT == 3600
RETRY_DELAY == 2
DOMAIN_PAUSE == 5
SOFT_LIMIT == 3000

\* Lengths of the literal parts of the alert text.
ALERT_HEADER_LEN == 32
CONTINUED_HEADER_LEN == 27
BLOCK_FRAME_LEN == 29
UNKNOWN_SECRET_LEN == 14
UNKNOWN_FILE_LEN == 12

\* ------------------------------------------------------------------ bounds
MaxPats == 2
MaxTargets == 2
MaxCycles == 2
MaxLines == 3

\* ------------------------------------------------------------ input values
TokenNames == <<"ghp_a", "ghp_b", "ghp_c", "ghp_d">>
\* A str is the sequence of its code points; the target names acme and beta.
Acme == <<97, 99, 109, 101>>
Beta == <<98, 101, 116, 97>>
DomainNames == {Acme, Beta}
NameLen(domain) == Len(domain)
NoPat == "none"
Absent == 0 - 1

\* A JSON object emitted by the engine.  Verified: "true", "false" or
\* "absent".  shape tells how far the SourceMetadata -> Data -> Github chain
\* consists of objects: "github" (complete), "no_meta" (no SourceMetadata
\* key), "meta_scalar", "data_scalar", "github_scalar" (that key holds null
\* or a scalar).  DetectorName, file, link: a length, or Absent.
Rec(v, s, det, file, link) ==
    [Verified |-> v, shape |-> s, DetectorName |-> det, file |-> file, link |-> link]

Records ==
    { Rec("true", "github", 6, 20, 40),
      Rec("true", "github", Absent, Absent, 1480),
      Rec("true", "github", 6, 20, 0),
      Rec("true", "github", 6, 20, Absent),
      Rec("true", "no_meta", 6, Absent, Absent),
      Rec("true", "github_scalar", 6, Absent, Absent),
      Rec("true", "meta_scalar", 6, Absent, Absent),
      Rec("false", "github", 7, 20, 40),
      Rec("absent", "github", 8, 20, 40),
      Rec("false", "data_scalar", 6, Absent, Absent) }

\* One line of the engine's standard output: a JSON object, some other JSON
\* value (a list, a number), text that is not JSON, or a line on which
\* json.loads raises an exception that is no JSONDecodeError (ValueError for
\* a number of more than 4300 digits, RecursionError for deep nesting).
RecordLine(r) == [kind |-> "object", value |-> r]
OtherJsonLine == [kind |-> "other_json", value |-> 0]
MalformedLine == [kind |-> "malformed", value |-> 0]
RaisingLine == [kind |-> "raises", value |-> 0]
Lines ==
    {RecordLine(r) : r \in Records} \cup {OtherJsonLine, MalformedLine, RaisingLine}

SeqsUpTo(S, n) == UNION {[1..k -> S] : k \in 0..n}

\* -------------------------------------------------------- credential pool
\* _get_available_pat: the loop body, with k iterations left.  index is the
\* 0-based current_pat_index, limited the rate_limited_pats dictionary
\* (credential -> expiry), looked the number of credentials examined.
RECURSIVE PatLoop(_, _, _, _, _)
PatLoop(pool, index, limited, now, k) ==
    IF k = 0
    THEN [pat |-> NoPat, index |-> index, limited |-> limited, looked |-> Len(pool)]
    ELSE LET pat == pool[index + 1]
             next == (index + 1) % Len(pool)
         IN  IF pat \in DOMAIN limited /\ limited[pat] > now
             THEN PatLoop(pool, next, limited, now, k - 1)
             ELSE [pat |-> pat, index |-> next,
                   limited |-> [p \in DOMAIN limited \ {pat} |-> limited[p]],
                   looked |-> Len(pool) - k + 1]

\* Mutant of GetAvailablePat: the loop starts at the head of the list.
GetAvailablePatFromStart(pool, index, limited, now) ==
    PatLoop(pool, 0, limited, now, Len(pool))

\* Mutant of GetAvailablePat: the loop looks at one credential less.
GetAvailablePatShortLoop(pool, index, limited, now) ==
    PatLoop(pool, index, limited, now, Len(pool) - 1)

\* Mutant of GetAvailablePat: the entry of the returned credential stays.
GetAvailablePatKeepsEntry(pool, index, limited, now) ==
    [PatLoop(pool, index, limited, now, Len(pool)) EXCEPT !.limited = limited]

GetAvailablePat(pool, index, limited, now) ==
    PatLoop(pool, index, limited, now, Len(pool))

\* Mutant of MarkRateLimited: the cool-down is added twice.
MarkRateLimitedTwice(limited, pat, now) ==
    [p \in DOMAIN limited \cup {pat} |->
        IF p = pat THEN now + 2 * PAT_COOLDOWN ELSE limited[p]]

\* Mutant of MarkRateLimited: the cool-down is not added.
MarkRateLimitedUntilNow(limited, pat, now) ==
    [p \in DOMAIN limited \cup {pat} |-> IF p = pat THEN now ELSE limited[p]]

\* rate_limited_pats[pat] = time.time() + PAT_COOLDOWN
MarkRateLimited(limited, pat, now) ==
    [p \in DOMAIN limited \cup {pat} |->
        IF p = pat THEN now + PAT_COOLDOWN ELSE limited[p]]

\* ------------------------------------------------------------ scan invoker
\* What the engine process did: exit is "zero", "nonzero" or "timeout";
\* stderr is the diagnostic text of a non-zero exit: "403" (text holding
\* the substring 403), "error" (any other text), or the text "rate_limit"
\* itself; took is the time the process ran.
EngineResult(exit, stdout, stderr, took) ==
    [exit |-> exit, stdout |-> stdout, stderr |-> stderr, took |-> took]

\* _run_trufflehog: the pair (success, output) and the cool-down map.
RunTrufflehog(result, pat, limited, now) ==
    CASE result.exit = "zero" ->
            [success |-> TRUE, output |-> "stdout", limited |-> limited]
      [] result.exit = "timeout" ->
            [success |-> FALSE, output |-> "timeout", limited |-> limited]
      [] OTHER ->
            IF result.stderr = "403"
            THEN [success |-> FALSE, output |-> "rate_limit",
                  limited |-> MarkRateLimited(limited, pat, now)]
            ELSE [success |-> FALSE, output |-> result.stderr, limited |-> limited]

\* ------------------------------------------------------- finding processor
\* json.loads(line) followed by isinstance(data, dict).
IsObjectLine(line) == line.kind = "object"

\* json.loads(line) raises what "except json.JSONDecodeError" does not catch.
LoadRaises(line) == line.kind = "raises"

\* The parsing loop of scan_domain: findings, in the order of the lines;
\* raised tells that an exception left the loop, findings then being those
\* of the lines before.
RECURSIVE ParseOutput(_)
ParseOutput(lines) ==
    IF lines = <<>> THEN [raised |-> FALSE, findings |-> <<>>]
    ELSE IF LoadRaises(Head(lines)) THEN [raised |-> TRUE, findings |-> <<>>]
    ELSE LET rest == ParseOutput(Tail(lines)) IN
         IF IsObjectLine(Head(lines))
         THEN [rest EXCEPT !.findings = <<Head(lines).value>> \o @]
         ELSE rest

\* Mutant of IsVerified: the flag is not looked at.
IsVerifiedAlways(entry) == TRUE

\* entry.get("Verified") as a condition.
IsVerified(entry) == entry.Verified = "true"

\* secret.get("SourceMetadata", {}).get("Data", {}).get("Github", {}):
\* the Github object, a non-object value, or an AttributeError.
GithubData(entry) ==
    CASE entry.shape = "github" ->
            [kind |-> "dict", file |-> entry.file, link |-> entry.link]
      [] entry.shape = "no_meta" ->
            [kind |-> "dict", file |-> Absent, link |-> Absent]
      [] entry.shape = "github_scalar" ->
            [kind |-> "scalar", file |-> Absent, link |-> Absent]
      [] OTHER ->
            [kind |-> "raise", file |-> Absent, link |-> Absent]

\* The filter loop of scan_domain over findings, verified being the list
\* built so far; raised tells that the loop ended in an AttributeError.
RECURSIVE FilterVerified(_, _)
FilterVerified(findings, verified) ==
    IF findings = <<>> THEN [raised |-> FALSE, verified |-> verified]
    ELSE LET entry == Head(findings) IN
         IF ~IsVerified(entry) THEN FilterVerified(Tail(findings), verified)
         ELSE LET gh_data == GithubData(entry) IN
              IF gh_data.kind = "raise" THEN [raised |-> TRUE, verified |-> verified]
              ELSE IF gh_data.kind # "dict"
                   THEN FilterVerified(Tail(findings), verified)
                   ELSE FilterVerified(Tail(findings), Append(verified, entry))

\* ----------------------------------------------------------------- notifier
\* A message text: its header line and the finding blocks appended to it.
Message(header, domain, blocks) ==
    [header |-> header, domain |-> domain, blocks |-> blocks]

\* The block formatted for one secret.
Block(entry, gh_data) ==
    [detector_name |-> IF entry.DetectorName = Absent THEN UNKNOWN_SECRET_LEN
                       ELSE entry.DetectorName,
     file_path |-> IF gh_data.file = Absent THEN UNKNOWN_FILE_LEN ELSE gh_data.file,
     commit_url |-> gh_data.link]

BlockLen(b) == BLOCK_FRAME_LEN + b.detector_name + b.file_path + b.commit_url

RECURSIVE BlocksLen(_)
BlocksLen(blocks) ==
    IF blocks = <<>> THEN 0 ELSE BlockLen(Head(blocks)) + BlocksLen(Tail(blocks))

\* len(message)
MessageLen(m) ==
    (IF m.header = "alert" THEN ALERT_HEADER_LEN ELSE CONTINUED_HEADER_LEN)
    + NameLen(m.domain) + BlocksLen(m.blocks)

\* commit_url = gh_data.get("link", ""); not commit_url
NoCommitUrl(gh_data) == gh_data.link = Absent \/ gh_data.link = 0

\* Mutant of AlertLoop: a flush does not start a new text.
RECURSIVE AlertLoopKeepsText(_, _, _, _, _)
AlertLoopKeepsText(domain, secrets, message, count, out) ==
    IF secrets = <<>>
    THEN IF count > 0 THEN Append(out, message) ELSE out
    ELSE LET secret == Head(secrets)
             gh_data == GithubData(secret)
         IN  IF gh_data.kind # "dict" \/ NoCommitUrl(gh_data)
             THEN AlertLoopKeepsText(domain, Tail(secrets), message, count, out)
             ELSE LET grown == Message(message.header, domain,
                                       Append(message.blocks, Block(secret, gh_data)))
                  IN  IF MessageLen(grown) > SOFT_LIMIT
                      THEN AlertLoopKeepsText(domain, Tail(secrets), grown, 0,
                                              Append(out, grown))
                      ELSE AlertLoopKeepsText(domain, Tail(secrets), grown,
                                              count + 1, out)

\* Mutant of AlertLoop: a text that the next block would push beyond the
\* ceiling is flushed before the block is appended.
RECURSIVE AlertLoopFlushesFirst(_, _, _, _, _)
AlertLoopFlushesFirst(domain, secrets, message, count, out) ==
    IF secrets = <<>>
    THEN IF count > 0 THEN Append(out, message) ELSE out
    ELSE LET secret == Head(secrets)
             gh_data == GithubData(secret)
         IN  IF gh_data.kind # "dict" \/ NoCommitUrl(gh_data)
             THEN AlertLoopFlushesFirst(domain, Tail(secrets), message, count, out)
             ELSE LET grown == Message(message.header, domain,
                                       Append(message.blocks, Block(secret, gh_data)))
                  IN  IF MessageLen(grown) > SOFT_LIMIT
                      THEN AlertLoopFlushesFirst(domain, Tail(secrets),
                               Message("continued", domain, <<Block(secret, gh_data)>>),
                               1, Append(out, message))
                      ELSE AlertLoopFlushesFirst(domain, Tail(secrets), grown,
                                                 count + 1, out)

\* Mutant of AlertLoop: the text left at the end is sent whatever it holds.
RECURSIVE AlertLoopAlwaysFlushes(_, _, _, _, _)
AlertLoopAlwaysFlushes(domain, secrets, message, count, out) ==
    IF secrets = <<>>
    THEN Append(out, message)
    ELSE LET secret == Head(secrets)
             gh_data == GithubData(secret)
         IN  IF gh_data.kind # "dict" \/ NoCommitUrl(gh_data)
             THEN AlertLoopAlwaysFlushes(domain, Tail(secrets), message, count, out)
             ELSE LET grown == Message(message.header, domain,
                                       Append(message.blocks, Block(secret, gh_data)))
                  IN  IF MessageLen(grown) > SOFT_LIMIT
                      THEN AlertLoopAlwaysFlushes(domain, Tail(secrets),
                                                  Message("continued", domain, <<>>),
                                                  0, Append(out, grown))
                      ELSE AlertLoopAlwaysFlushes(domain, Tail(secrets), grown,
                                                  count + 1, out)

\* The loop of _send_telegram_alert over secrets and the final flush:
\* the texts handed to _send_telegram_message, in order.
RECURSIVE AlertLoop(_, _, _, _, _)
AlertLoop(domain, secrets, message, count, out) ==
    IF secrets = <<>>
    THEN IF count > 0 THEN Append(out, message) ELSE out
    ELSE LET secret == Head(secrets)
             gh_data == GithubData(secret)
         IN  IF gh_data.kind # "dict" \/ NoCommitUrl(gh_data)
             THEN AlertLoop(domain, Tail(secrets), message, count, out)
             ELSE LET grown == Message(message.header, domain,
                                       Append(message.blocks, Block(secret, gh_data)))
                  IN  IF MessageLen(grown) > SOFT_LIMIT
                      THEN AlertLoop(domain, Tail(secrets),
                                     Message("continued", domain, <<>>), 0,
                                     Append(out, grown))
                      ELSE AlertLoop(domain, Tail(secrets), grown, count + 1, out)

SendTelegramAlert(domain, verified_secrets) ==
    IF verified_secrets = <<>> THEN <<>>
    ELSE AlertLoop(domain, verified_secrets, Message("alert", domain, <<>>), 0, <<>>)

\* Mutant of ScanSuccess: a failed write of the verified file is passed over.
ScanSuccessSwallowsWriteError(domain, lines, io) ==
    LET parsed == ParseOutput(lines)
        findings == parsed.findings
        filtered == FilterVerified(findings, <<>>)
        verified == filtered.verified
        Outcome(raised, wrote_results, wrote_verified, alerts, added, appended) ==
            [raised |-> raised, findings |-> findings, verified |-> verified,
             wrote_results |-> wrote_results, wrote_verified |-> wrote_verified,
             alerts |-> alerts, added |-> added, appended |-> appended]
    IN  IF parsed.raised \/ io = "results"
        THEN Outcome(TRUE, FALSE, FALSE, <<>>, FALSE, FALSE)
        ELSE IF filtered.raised
        THEN Outcome(TRUE, TRUE, FALSE, <<>>, FALSE, FALSE)
        ELSE LET alerts == IF verified # <<>>
                           THEN SendTelegramAlert(domain, verified) ELSE <<>>
             IN  IF io = "ledger"
                 THEN Outcome(TRUE, TRUE, verified # <<>>, alerts, TRUE, FALSE)
                 ELSE Outcome(FALSE, TRUE, verified # <<>> /\ io # "verified",
                              alerts, TRUE, TRUE)

\* The success branch of scan_domain for the engine's output lines.  io names
\* the write that raises OSError ("results", "verified", "ledger") or is
\* "ok".  The result tells what was written before the branch returned or
\* raised (in the parsing loop, a write, or the filter).
ScanSuccess(domain, lines, io) ==
    LET parsed == ParseOutput(lines)
        findings == parsed.findings
        filtered == FilterVerified(findings, <<>>)
        verified == filtered.verified
        Outcome(raised, wrote_results, wrote_verified, alerts, added, appended) ==
            [raised |-> raised, findings |-> findings, verified |-> verified,
             wrote_results |-> wrote_results, wrote_verified |-> wrote_verified,
             alerts |-> alerts, added |-> added, appended |-> appended]
    IN  IF parsed.raised \/ io = "results"
        THEN Outcome(TRUE, FALSE, FALSE, <<>>, FALSE, FALSE)
        ELSE IF filtered.raised
        THEN Outcome(TRUE, TRUE, FALSE, <<>>, FALSE, FALSE)
        ELSE IF verified # <<>> /\ io = "verified"
        THEN Outcome(TRUE, TRUE, FALSE, <<>>, FALSE, FALSE)
        ELSE LET alerts == IF verified # <<>>
                           THEN SendTelegramAlert(domain, verified) ELSE <<>>
             IN  IF io = "ledger"
                 THEN Outcome(TRUE, TRUE, verified # <<>>, alerts, TRUE, FALSE)
                 ELSE Outcome(FALSE, TRUE, verified # <<>>, alerts, TRUE, TRUE)

\* ------------------------------------------------------------------- state
VARIABLES
    pats,                \* self.pats
    current_pat_index,   \* self.current_pat_index
    rate_limited_pats,   \* self.rate_limited_pats: credential -> expiry
    completed_domains,   \* self.completed_domains
    ledger,              \* text of COMPLETED_FILE, split at its line feeds
    targets,             \* lines of DOMAINS_FILE
    results_files,       \* RESULTS_DIR: domain -> list written
    verified_files,      \* VERIFIED_DIR: domain -> list written
    telegram,            \* requests made to the Telegram endpoint, with outcome
    clock,               \* time.time()
    pc,                  \* where the process is
    cycle,               \* number of the current cycle of run_continuously
    end_time,            \* end_time of the current cycle
    dom_idx,             \* position of run()'s loop in targets
    attempts,            \* attempts of the current scan_domain call
    scan,                \* history of the current scan_domain call
    pat_calls,           \* history of the latest _get_available_pat calls
    marked_at,           \* history: credential -> time it was last rate-limited
    rest_from            \* history: time the latest rest window began

vars == <<pats, current_pat_index, rate_limited_pats, completed_domains, ledger,
          targets, results_files, verified_files, telegram, clock, pc, cycle,
          end_time, dom_idx, attempts, scan, pat_calls, marked_at, rest_from>>

EmptyMap == [x \in {} |-> 0]
Put(f, k, v) == [x \in DOMAIN f \cup {k} |-> IF x = k THEN v ELSE f[x]]
Range(f) == {f[x] : x \in DOMAIN f}

\* History of a scan_domain call: its domain and place, the engine
\* invocations made (calls), how many of them were rate-limited (limited) or
\* followed a failed one (after_failure), the waits for a credential, the
\* outcome (last) and standard output (stdout) of the latest invocation.
NoScan == [domain |-> <<>>, idx |-> 0, cycle |-> 0, calls |-> 0, waits |-> 0,
           limited |-> 0, after_failure |-> 0, invoked_completed |-> FALSE,
           state |-> "None", last |-> "none", stdout |-> <<>>]

\* Line feed and carriage return.
LF == 10
CR == 13

\* The text of COMPLETED_FILE as the list of its pieces between line feeds:
\* the last element is what follows the last line feed (empty when the text
\* is empty or ends with a line feed).
EmptyFile == << <<>> >>

\* The text the pieces stand for.
RECURSIVE Text(_)
Text(file) ==
    IF Len(file) = 1 THEN file[1]
    ELSE file[1] \o <<LF>> \o Text(Tail(file))

\* open(COMPLETED_FILE, 'r'): in text mode a carriage return followed by a
\* line feed, and a carriage return alone, are read as one line feed.
RECURSIVE UniversalNewlines(_)
UniversalNewlines(text) ==
    IF text = <<>> THEN <<>>
    ELSE IF Head(text) = CR
    THEN <<LF>> \o UniversalNewlines(IF Len(text) > 1 /\ text[2] = LF
                                     THEN SubSeq(text, 3, Len(text))
                                     ELSE Tail(text))
    ELSE <<Head(text)>> \o UniversalNewlines(Tail(text))

\* for line in f: the lines of the text, each with its line feed; the last
\* one has none when the text does not end with one.
RECURSIVE ReadLines(_)
ReadLines(text) ==
    IF text = <<>> THEN <<>>
    ELSE IF \A i \in DOMAIN text : text[i] # LF THEN <<text>>
    ELSE LET end == CHOOSE i \in DOMAIN text :
                        text[i] = LF /\ \A j \in 1..(i - 1) : text[j] # LF
         IN  <<SubSeq(text, 1, end)>> \o ReadLines(SubSeq(text, end + 1, Len(text)))

\* The code points str.strip() removes: those str.isspace() is true of.
Whitespace ==
    {9, 10, 11, 12, 13, 28, 29, 30, 31, 32, 133, 160, 5760,
     8192, 8193, 8194, 8195, 8196, 8197, 8198, 8199, 8200, 8201, 8202,
     8232, 8233, 8239, 8287, 12288}

\* line.strip(): the line without its leading and trailing white space.
RECURSIVE LStrip(_)
LStrip(line) ==
    IF line # <<>> /\ Head(line) \in Whitespace THEN LStrip(Tail(line)) ELSE line

RECURSIVE RStrip(_)
RStrip(line) ==
    IF line # <<>> /\ line[Len(line)] \in Whitespace
    THEN RStrip(SubSeq(line, 1, Len(line) - 1))
    ELSE line

Strip(line) == RStrip(LStrip(line))

\* _load_completed_domains: set(line.strip() for line in f if line.strip()),
\* the stripped lines that are not empty.
LoadCompletedDomains(file) ==
    LET lines == ReadLines(UniversalNewlines(Text(file)))
    IN  {Strip(lines[i]) : i \in {k \in DOMAIN lines : Strip(lines[k]) # <<>>}}

\* _mark_domain_completed: f.write(f"{domain}\n") in mode 'a'; the name and
\* a line feed go after whatever the file ends with.
AppendLine(file, domain) == [file EXCEPT ![Len(file)] = @ \o domain] \o << <<>> >>

TargetLists == [1..MaxTargets -> DomainNames]
\* No ledger or an empty one; one line with its line feed; one line without;
\* a line with spaces around the name and a line of spaces only; one line
\* and a space after its line feed; a name between a no-break space and a
\* vertical tab, then a line of an em space and a file separator; one line
\* ended by carriage return and line feed; two names with a carriage return
\* between them.
InitialLedgers ==
    {EmptyFile, <<Acme \o <<CR>> \o Beta>>}
        \cup {<<d, <<>>>> : d \in DomainNames}
        \cup {<<d>> : d \in DomainNames}
        \cup {<<<<32>> \o d \o <<32>>, <<32, 32, 32>>, <<>>>> : d \in DomainNames}
        \cup {<<d, <<32>>>> : d \in DomainNames}
        \cup {<<<<160>> \o d \o <<11>>, <<8195, 28>>, <<>>>> : d \in DomainNames}
        \cup {<<d \o <<CR>>, <<>>>> : d \in DomainNames}
PatLists == {SubSeq(TokenNames, 1, n) : n \in 1..MaxPats}

\* GitHubScanner() with the files found at startup.
InitWith(pat_lists, target_lists, ledgers) ==
    /\ pats \in pat_lists
    /\ targets \in target_lists
    /\ ledger \in ledgers
    /\ completed_domains = LoadCompletedDomains(ledger)
    /\ rate_limited_pats = EmptyMap
    /\ current_pat_index = 0
    /\ results_files = EmptyMap
    /\ verified_files = EmptyMap
    /\ telegram = <<>>
    /\ clock = 0
    /\ pc = "cycle"
    /\ cycle = 0
    /\ end_time = 0
    /\ dom_idx = 0
    /\ attempts = 0
    /\ scan = NoScan
    /\ pat_calls = <<>>
    /\ marked_at = EmptyMap
    /\ rest_from = 0

Init == InitWith(PatLists, TargetLists, InitialLedgers)

\* Mutant of SendTelegramMessageRaises: a lost message raises.
SendTelegramMessageRaisesWhenLost(ack) == ~ack

\* _send_telegram_message: whether an exception leaves the method when the
\* request is answered (ack) or fails; "except Exception" catches and logs.
SendTelegramMessageRaises(ack) == FALSE

\* _send_telegram_message(text), delivered or not: failures are only logged.
Posted(log, texts, acks) ==
    log \o [i \in 1..Len(texts) |-> [text |-> texts[i], ok |-> acks[i]]]

StatusMessage(what) == Message(what, <<>>, <<>>)

\* ----------------------------------------------------------- cycle scheduler
\* run_continuously: top of the loop, up to run()'s loop over the domains.
StartCycle(ack) ==
    /\ pc = "cycle"
    /\ cycle' = cycle + 1
    /\ end_time' = clock + RUN_DURATION
    /\ telegram' = Posted(telegram, <<StatusMessage("started")>>, <<ack>>)
    /\ dom_idx' = 1
    /\ pc' = "run"
    /\ UNCHANGED <<pats, current_pat_index, rate_limited_pats, completed_domains,
                   ledger, targets, results_files, verified_files, clock,
                   attempts, scan, pat_calls, marked_at, rest_from>>

\* Mutant of IsCompleted: no domain counts as completed.
IsCompletedNever(domain, completed) == FALSE

\* domain in self.completed_domains
IsCompleted(domain, completed) == domain \in completed

\* run(): a domain of the list that is skipped.
SkipCompleted ==
    /\ pc = "run"
    /\ dom_idx <= Len(targets)
    /\ IsCompleted(targets[dom_idx], completed_domains)
    /\ dom_idx' = dom_idx + 1
    /\ UNCHANGED <<pats, current_pat_index, rate_limited_pats, completed_domains,
                   ledger, targets, results_files, verified_files, telegram,
                   clock, pc, cycle, end_time, attempts, scan, pat_calls,
                   marked_at, rest_from>>

\* Mutant of BeginScan: the attempts of the scan before are kept.
BeginScanKeepsAttempts ==
    /\ pc = "run"
    /\ dom_idx <= Len(targets)
    /\ ~IsCompleted(targets[dom_idx], completed_domains)
    /\ scan' = [NoScan EXCEPT !.domain = targets[dom_idx], !.idx = dom_idx,
                              !.cycle = cycle, !.state = "Attempting"]
    /\ pc' = "scan"
    /\ UNCHANGED <<pats, current_pat_index, rate_limited_pats, completed_domains,
                   ledger, targets, results_files, verified_files, telegram,
                   clock, cycle, end_time, dom_idx, attempts, pat_calls,
                   marked_at, rest_from>>

\* run(): scan_domain(domain) is entered.
BeginScan ==
    /\ pc = "run"
    /\ dom_idx <= Len(targets)
    /\ ~IsCompleted(targets[dom_idx], completed_domains)
    /\ attempts' = 0
    /\ scan' = [NoScan EXCEPT !.domain = targets[dom_idx], !.idx = dom_idx,
                              !.cycle = cycle, !.state = "Attempting"]
    /\ pc' = "scan"
    /\ UNCHANGED <<pats, current_pat_index, rate_limited_pats, completed_domains,
                   ledger, targets, results_files, verified_files, telegram,
                   clock, cycle, end_time, dom_idx, pat_calls, marked_at,
                   rest_from>>

\* Mutant of TimeRemaining: nothing remains.
TimeRemainingNone(now, deadline) == 0

\* run_continuously: the sleep that follows run(), time_remaining when
\* datetime.now() < end_time and none otherwise.
TimeRemaining(now, deadline) == IF now < deadline THEN deadline - now ELSE 0

\* run_continuously: run() has returned; sleep to end_time, announce the break.
FinishRun(ack) ==
    /\ pc = "run"
    /\ dom_idx > Len(targets)
    /\ clock' = clock + TimeRemaining(clock, end_time)
    /\ telegram' = Posted(telegram, <<StatusMessage("pausing")>>, <<ack>>)
    /\ rest_from' = clock'
    /\ pc' = "rest"
    /\ UNCHANGED <<pats, current_pat_index, rate_limited_pats, completed_domains,
                   ledger, targets, results_files, verified_files, cycle,
                   end_time, dom_idx, attempts, scan, pat_calls, marked_at>>

\* run_continuously: time.sleep(BREAK_DURATION)
Rest ==
    /\ pc = "rest"
    /\ clock' = clock + BREAK_DURATION
    /\ pc' = "cycle"
    /\ UNCHANGED <<pats, current_pat_index, rate_limited_pats, completed_domains,
                   ledger, targets, results_files, verified_files, telegram,
                   cycle, end_time, dom_idx, attempts, scan, pat_calls,
                   marked_at, rest_from>>

\* -------------------------------------------------------- domain orchestrator
\* Mutant of RetryAllowed: one attempt more.
RetryAllowedOneMore(n) == n <= MAX_RETRIES_PER_DOMAIN

\* while attempts < MAX_RETRIES_PER_DOMAIN
RetryAllowed(n) == n < MAX_RETRIES_PER_DOMAIN

\* The outcome of an engine run as the Scan Invoker's contract names it.
OutcomeOf(result) ==
    CASE result.exit = "zero" -> "Success"
      [] result.exit = "timeout" -> "TimedOut"
      [] result.stderr = "403" -> "RateLimited"
      [] OTHER -> "Failed"

\* A credential whose cool-down is not running at time now.
Usable(pat, limited, now) == pat \notin DOMAIN limited \/ limited[pat] <= now

LastN(s, n) == IF Len(s) <= n THEN s ELSE SubSeq(s, Len(s) - n + 1, Len(s))

\* History of one _get_available_pat call made in the current state.
Remembered(call) ==
    LastN(Append(pat_calls,
                 [index |-> current_pat_index,
                  usable |-> {i \in 1..Len(pats) :
                                 Usable(pats[i], rate_limited_pats, clock)},
                  pat |-> call.pat,
                  next |-> call.index,
                  looked |-> call.looked,
                  waited |-> IF call.pat \in DOMAIN marked_at
                             THEN clock - marked_at[call.pat] ELSE Absent]),
          Len(pats))

\* marked_at once the call has handed out its credential.
Forgotten(call) == [p \in DOMAIN marked_at \ {call.pat} |-> marked_at[p]]

\* History of one engine invocation.
Invoked(result, state) ==
    [scan EXCEPT !.calls = @ + 1,
                 !.limited = @ + (IF OutcomeOf(result) = "RateLimited" THEN 1 ELSE 0),
                 !.after_failure =
                     @ + (IF scan.last \in {"Failed", "TimedOut"} THEN 1 ELSE 0),
                 !.invoked_completed = @ \/ scan.domain \in completed_domains,
                 !.last = OutcomeOf(result),
                 !.stdout = result.stdout,
                 !.state = state]

\* scan_domain: no credential is available.
WaitForPat ==
    /\ pc = "scan"
    /\ RetryAllowed(attempts)
    /\ LET call == GetAvailablePat(pats, current_pat_index, rate_limited_pats, clock)
       IN  /\ call.pat = NoPat
           /\ current_pat_index' = call.index
           /\ rate_limited_pats' = call.limited
           /\ pat_calls' = Remembered(call)
    /\ clock' = clock + PAT_COOLDOWN
    /\ scan' = [scan EXCEPT !.waits = @ + 1]
    /\ UNCHANGED <<pats, completed_domains, ledger, targets, results_files,
                   verified_files, telegram, pc, cycle, end_time, dom_idx,
                   attempts, marked_at, rest_from>>

\* scan_domain: the loop ends because the attempts are used up; run() pauses.
GiveUp ==
    /\ pc = "scan"
    /\ ~RetryAllowed(attempts)
    /\ scan' = [scan EXCEPT !.state = "Exhausted"]
    /\ clock' = clock + DOMAIN_PAUSE
    /\ dom_idx' = dom_idx + 1
    /\ pc' = "run"
    /\ UNCHANGED <<pats, current_pat_index, rate_limited_pats, completed_domains,
                   ledger, targets, results_files, verified_files, telegram,
                   cycle, end_time, attempts, pat_calls, marked_at, rest_from>>

\* scan_domain: an attempt that the engine answers with a rate limit.
ScanRateLimited(result) ==
    /\ pc = "scan"
    /\ RetryAllowed(attempts)
    /\ LET call == GetAvailablePat(pats, current_pat_index, rate_limited_pats, clock)
           run == RunTrufflehog(result, call.pat, call.limited, clock + result.took)
       IN  /\ call.pat # NoPat
           /\ ~run.success
           /\ run.output = "rate_limit"
           /\ current_pat_index' = call.index
           /\ rate_limited_pats' = run.limited
           /\ pat_calls' = Remembered(call)
           /\ marked_at' = IF run.limited = call.limited THEN Forgotten(call)
                           ELSE Put(marked_at, call.pat, clock + result.took)
    /\ attempts' = attempts + 1
    /\ clock' = clock + result.took + RETRY_DELAY
    /\ scan' = Invoked(result, "Attempting")
    /\ UNCHANGED <<pats, completed_domains, ledger, targets, results_files,
                   verified_files, telegram, pc, cycle, end_time, dom_idx,
                   rest_from>>

\* scan_domain: an attempt that fails otherwise; run() pauses and goes on.
ScanFailed(result) ==
    /\ pc = "scan"
    /\ RetryAllowed(attempts)
    /\ LET call == GetAvailablePat(pats, current_pat_index, rate_limited_pats, clock)
           run == RunTrufflehog(result, call.pat, call.limited, clock + result.took)
       IN  /\ call.pat # NoPat
           /\ ~run.success
           /\ run.output # "rate_limit"
           /\ current_pat_index' = call.index
           /\ rate_limited_pats' = run.limited
           /\ pat_calls' = Remembered(call)
           /\ marked_at' = Forgotten(call)
    /\ clock' = clock + result.took + DOMAIN_PAUSE
    /\ scan' = Invoked(result, "Failed")
    /\ dom_idx' = dom_idx + 1
    /\ pc' = "run"
    /\ UNCHANGED <<pats, completed_domains, ledger, targets, results_files,
                   verified_files, telegram, cycle, end_time, attempts,
                   rest_from>>

\* scan_domain: a successful attempt, processed without an exception.
ScanCompleted(result, io, delivery) ==
    /\ pc = "scan"
    /\ RetryAllowed(attempts)
    /\ LET call == GetAvailablePat(pats, current_pat_index, rate_limited_pats, clock)
           run == RunTrufflehog(result, call.pat, call.limited, clock + result.took)
           done == ScanSuccess(scan.domain, result.stdout, io)
       IN  /\ call.pat # NoPat
           /\ run.success
           /\ ~done.raised
           /\ current_pat_index' = call.index
           /\ rate_limited_pats' = run.limited
           /\ pat_calls' = Remembered(call)
           /\ marked_at' = Forgotten(call)
           /\ results_files' = Put(results_files, scan.domain, done.findings)
           /\ verified_files' = IF done.wrote_verified
                                THEN Put(verified_files, scan.domain, done.verified)
                                ELSE verified_files
           /\ \E acks \in [1..Len(done.alerts) -> delivery] :
                  /\ \A i \in DOMAIN acks : ~SendTelegramMessageRaises(acks[i])
                  /\ telegram' = Posted(telegram, done.alerts, acks)
           /\ completed_domains' = completed_domains \cup {scan.domain}
           /\ ledger' = AppendLine(ledger, scan.domain)
    /\ clock' = clock + result.took + DOMAIN_PAUSE
    /\ scan' = Invoked(result, "Completed")
    /\ dom_idx' = dom_idx + 1
    /\ pc' = "run"
    /\ UNCHANGED <<pats, targets, cycle, end_time, attempts, rest_from>>

\* scan_domain: a successful attempt whose processing raises (a write, the
\* filter, or a message that is not caught); the exception
\* leaves run_continuously and the process posts its crash message and ends.
ScanCrashed(result, io, delivery) ==
    /\ pc = "scan"
    /\ RetryAllowed(attempts)
    /\ LET call == GetAvailablePat(pats, current_pat_index, rate_limited_pats, clock)
           run == RunTrufflehog(result, call.pat, call.limited, clock + result.took)
           done == ScanSuccess(scan.domain, result.stdout, io)
       IN  /\ call.pat # NoPat
           /\ run.success
           /\ current_pat_index' = call.index
           /\ rate_limited_pats' = run.limited
           /\ pat_calls' = Remembered(call)
           /\ marked_at' = Forgotten(call)
           /\ results_files' = IF done.wrote_results
                               THEN Put(results_files, scan.domain, done.findings)
                               ELSE results_files
           /\ verified_files' = IF done.wrote_verified
                                THEN Put(verified_files, scan.domain, done.verified)
                                ELSE verified_files
           /\ \E acks \in [1..Len(done.alerts) -> delivery], crash_ack \in delivery :
                  /\ \/ done.raised
                     \/ \E i \in DOMAIN acks : SendTelegramMessageRaises(acks[i])
                  /\ telegram' = Posted(Posted(telegram, done.alerts, acks),
                                        <<StatusMessage("crashed")>>, <<crash_ack>>)
           /\ completed_domains' = IF done.added
                                   THEN completed_domains \cup {scan.domain}
                                   ELSE completed_domains
           /\ ledger' = IF done.appended THEN AppendLine(ledger, scan.domain)
                        ELSE ledger
    /\ clock' = clock + result.took
    /\ scan' = Invoked(result, "Crashed")
    /\ pc' = "crashed"
    /\ UNCHANGED <<pats, targets, cycle, end_time, dom_idx, attempts, rest_from>>

\* ------------------------------------------------------------ specifications
Successes(outputs, times) ==
    {EngineResult("zero", out, "", t) : out \in outputs, t \in times}

Failures(stderrs, times) ==
    LET ends == {<<"nonzero", e, t>> : e \in stderrs, t \in times}
                \cup {<<"timeout", "", ENGINE_TIMEOUT>>}
    IN  {EngineResult(end[1], <<>>, end[2], end[3]) : end \in ends}

\* The program with at most limit cycles, the engine behaving as one of
\* successes or failures, a write failing as faults tell, and a message
\* being delivered as delivery tells.
NextWith(limit, successes, failures, faults, delivery) ==
    \/ \E ack \in delivery : cycle < limit /\ StartCycle(ack)
    \/ SkipCompleted
    \/ BeginScan
    \/ \E ack \in delivery : FinishRun(ack)
    \/ Rest
    \/ WaitForPat
    \/ GiveUp
    \/ pc = "scan" /\ \E result \in failures : ScanRateLimited(result)
    \/ pc = "scan" /\ \E result \in failures : ScanFailed(result)
    \/ pc = "scan" /\ \E result \in successes, io \in faults :
                          ScanCompleted(result, io, delivery)
    \/ pc = "scan" /\ \E result \in successes, io \in faults :
                          ScanCrashed(result, io, delivery)

\* A few engine outputs: nothing; a verified finding after a line that is
\* not JSON; a verified finding whose SourceMetadata is null; a verified
\* finding after a line on which json.loads raises.
CycleOutputs ==
    { <<>>,
      <<MalformedLine, RecordLine(Rec("true", "github", 6, 20, 40))>>,
      <<RecordLine(Rec("true", "meta_scalar", 6, Absent, Absent))>>,
      <<RaisingLine, RecordLine(Rec("true", "github", 6, 20, 40))>> }

WriteFaults == {"ok", "results", "verified", "ledger"}

\* The scheduler over MaxCycles cycles; engine processes that exit by
\* themselves take no time.
Next ==
    NextWith(MaxCycles, Successes(CycleOutputs, {0}),
             Failures({"403", "error", "rate_limit"}, {0}), WriteFaults, {TRUE})

Spec == Init /\ [][Next]_vars

\* The first cycle over a list that names one target MaxTargets times, with
\* engine processes of different running times.
EngineTimes == {0, PAT_COOLDOWN - 2 * RETRY_DELAY}

InitRotation == InitWith(PatLists, {[i \in 1..MaxTargets |-> Acme]}, {EmptyFile})

NextRotation ==
    NextWith(1, Successes(CycleOutputs, EngineTimes),
             Failures({"403", "error"}, EngineTimes), {"ok"}, {TRUE})

SpecRotation == InitRotation /\ [][NextRotation]_vars

\* One credential and one target left to scan in one cycle, every engine
\* output of up to MaxLines lines, messages that are delivered or lost.
AllOutputs == SeqsUpTo(Lines, MaxLines)

InitFindings ==
    InitWith({<<TokenNames[1]>>}, {<<Beta, Acme>>},
             {<<Beta, <<>>>>, <<Beta>>, <<<<32>> \o Beta \o <<32>>, <<32, 32, 32>>, <<>>>>,
              <<<<8195>> \o Beta \o <<11, CR>>, <<>>>>})

NextFindings ==
    NextWith(1, Successes(AllOutputs, {0}), Failures({"403", "error"}, {0}),
             {"ok"}, BOOLEAN)

SpecFindings == InitFindings /\ [][NextFindings]_vars

\* The first cycle as in SpecRotation, with writes that may fail; the process
\* is one sequential program that takes its next step whenever it has one.
NextTermination ==
    NextWith(1, Successes(CycleOutputs, EngineTimes),
             Failures({"403", "error"}, EngineTimes), WriteFaults, {TRUE})

SpecTermination ==
    InitRotation /\ [][NextTermination]_vars /\ WF_vars(NextTermination)

\* MaxCycles cycles of one credential over a list that names one target
\* MaxTargets times; the engine is rate-limited a second before its timeout,
\* times out, or succeeds at once.
InitPacing ==
    InitWith({<<TokenNames[1]>>}, {[i \in 1..MaxTargets |-> Acme]}, {EmptyFile})

NextPacing ==
    NextWith(MaxCycles,
             Successes({<<>>, <<RecordLine(Rec("true", "meta_scalar", 6, Absent, Absent))>>},
                       {0}),
             Failures({"403"}, {ENGINE_TIMEOUT - 1}), {"ok"}, {TRUE})

SpecPacing == InitPacing /\ [][NextPacing]_vars

\* ------------------------------------------------------------------ properties
\* A finding that carries a true verified flag and a non-empty permalink.
Alertable(e) ==
    e.Verified = "true" /\ e.shape = "github" /\ e.link # Absent /\ e.link > 0

\* The block b is the text formatted for the finding e.
Shows(b, e) ==
    /\ b.commit_url = e.link
    /\ b.detector_name = (IF e.DetectorName = Absent THEN 14 ELSE e.DetectorName)
    /\ b.file_path = (IF e.file = Absent THEN 12 ELSE e.file)

\* The alert messages handed to the endpoint, in order.
AlertMessages ==
    LET posted == SelectSeq(telegram,
                            LAMBDA t : t.text.header \in {"alert", "continued"})
    IN  [i \in 1..Len(posted) |-> posted[i].text]

RECURSIVE BlocksOf(_)
BlocksOf(messages) ==
    IF messages = <<>> THEN <<>>
    ELSE Head(messages).blocks \o BlocksOf(Tail(messages))

\* Number of characters of a block, a list of blocks and a message.
BlockSize(b) == 29 + b.detector_name + b.file_path + b.commit_url
BlocksSize(blocks) ==
    LET sum[i \in 0..Len(blocks)] ==
            IF i = 0 THEN 0 ELSE sum[i - 1] + BlockSize(blocks[i])
    IN  sum[Len(blocks)]
HeaderSize(m) == (IF m.header = "alert" THEN 32 ELSE 27) + Len(m.domain)
MessageSize(m) == HeaderSize(m) + BlocksSize(m.blocks)

\* The findings of a list that have a non-empty permalink.
WithPermalink(findings) ==
    SelectSeq(findings, LAMBDA e : e.shape = "github" /\ e.link # Absent /\ e.link > 0)

\* C1: after a successful scan the verified-results file of the target holds
\* no finding that lacks a true verified flag and no verified finding whose
\* permalink is missing or empty.
C1_VerifiedFileHoldsOnlyAlertable ==
    \A d \in DOMAIN verified_files :
        \A i \in DOMAIN verified_files[d] : Alertable(verified_files[d][i])

\* C2: no message handed to the notification endpoint holds a block with an
\* empty permalink, and every block is the block of a finding of the scan
\* that has a true verified flag and a permalink; there are no more blocks
\* than such findings.
C2_BlocksOnlyForVerifiedWithPermalink ==
    /\ \A i \in DOMAIN AlertMessages :
          LET m == AlertMessages[i] IN
          \A j \in DOMAIN m.blocks :
              /\ m.blocks[j].commit_url > 0
              /\ m.domain \in DOMAIN results_files
              /\ \E k \in DOMAIN results_files[m.domain] :
                    /\ Alertable(results_files[m.domain][k])
                    /\ Shows(m.blocks[j], results_files[m.domain][k])
    /\ \A d \in DOMAIN results_files :
          Len(BlocksOf(SelectSeq(AlertMessages, LAMBDA m : m.domain = d)))
              <= Len(SelectSeq(results_files[d], Alertable))

\* C2 witness: a scan found an unverified finding with a permalink and handed
\* a verified finding without permalink to the alert, which posted a block.
C2_Witness ==
    /\ scan.state = "Completed"
    /\ \E k \in DOMAIN results_files[scan.domain] :
          LET e == results_files[scan.domain][k]
          IN  e.Verified # "true" /\ e.shape = "github" /\ e.link > 0
    /\ scan.domain \in DOMAIN verified_files
    /\ \E k \in DOMAIN verified_files[scan.domain] :
          ~Alertable(verified_files[scan.domain][k])
    /\ BlocksOf(AlertMessages) # <<>>

\* The lines of an output that hold a JSON object, as findings, in order.
ObjectsOf(lines) ==
    LET objects == SelectSeq(lines, LAMBDA l : l.kind = "object")
    IN  [i \in 1..Len(objects) |-> objects[i].value]

\* C9: the list written to the raw-results file of a successful scan is
\* exactly the lines of the output that parse to an object, in their order;
\* a line that does not parse to an object is dropped and does not keep the
\* list from being written.
C9_RawResultsAreTheObjectLines ==
    scan.last = "Success" =>
        /\ scan.domain \in DOMAIN results_files
        /\ results_files[scan.domain] = ObjectsOf(scan.stdout)

\* The blocks an alert for the list verified has to show, in order.
ExpectedBlocks(verified) ==
    LET linked == WithPermalink(verified)
    IN  [i \in 1..Len(linked) |->
            [detector_name |-> IF linked[i].DetectorName = Absent THEN 14
                               ELSE linked[i].DetectorName,
             file_path |-> IF linked[i].file = Absent THEN 12 ELSE linked[i].file,
             commit_url |-> linked[i].link]]

\* No message is longer than the ceiling plus the length of its last block.
WithinCeiling(messages) ==
    \A i \in DOMAIN messages :
        LET m == messages[i] IN
        IF m.blocks = <<>> THEN MessageSize(m) <= 3000
        ELSE MessageSize(m) - BlockSize(m.blocks[Len(m.blocks)]) <= 3000

\* The verified findings of the scanned domain were handed to the alert.
Alerted == scan.domain \in DOMAIN verified_files

\* C8 as claimed: when the combined block text of the verified findings
\* exceeds the soft ceiling, the alert is more than one message, no message
\* is longer than the ceiling plus one block, and the messages show every
\* finding with a permalink once, in input order.
C8_SplitWheneverTextExceedsCeiling ==
    LET expected == ExpectedBlocks(verified_files[scan.domain])
    IN  Alerted /\ BlocksSize(expected) > 3000 =>
            /\ Len(AlertMessages) > 1
            /\ WithinCeiling(AlertMessages)
            /\ BlocksOf(AlertMessages) = expected

\* C8 as amended: for every list of verified findings no message is longer
\* than the ceiling plus its last block and the messages show every finding
\* with a permalink once, in input order; the alert is more than one message
\* whenever the header and the blocks before the last one exceed the ceiling.
C8_Batching ==
    LET expected == ExpectedBlocks(verified_files[scan.domain])
        before == IF expected = <<>> THEN <<>>
                  ELSE SubSeq(expected, 1, Len(expected) - 1)
    IN  Alerted =>
            /\ WithinCeiling(AlertMessages)
            /\ BlocksOf(AlertMessages) = expected
            /\ 32 + Len(scan.domain) + BlocksSize(before) > 3000
                  => Len(AlertMessages) > 1

\* C8 witness: an alert of two messages, the first one beyond the ceiling.
C8_Witness ==
    /\ Alerted
    /\ Len(AlertMessages) = 2
    /\ MessageSize(AlertMessages[1]) > 3000
    /\ Len(AlertMessages[1].blocks) = 2
    /\ AlertMessages[2].header = "continued"
    /\ AlertMessages[2].blocks # <<>>

\* C3: when all N credentials were usable at each of the latest N calls of
\* _get_available_pat, these calls returned the credentials in circular list
\* order starting at the cursor of the first of them, each exactly once.
C3_RoundRobin ==
    LET n == Len(pats) IN
    (Len(pat_calls) = n /\ \A k \in 1..n : pat_calls[k].usable = 1..n) =>
        /\ \A k \in 1..n :
              pat_calls[k].pat = pats[((pat_calls[1].index + k - 1) % n) + 1]
        /\ \A j, k \in 1..n : j # k => pat_calls[j].pat # pat_calls[k].pat

\* C3 witness: two calls with both credentials usable, the first of them made
\* with the cursor on the second credential.
C3_Witness ==
    /\ Len(pats) = 2
    /\ Len(pat_calls) = 2
    /\ \A k \in 1..2 : pat_calls[k].usable = {1, 2}
    /\ pat_calls[1].index = 1

\* C4 as claimed: a credential handed out after it was marked rate-limited is
\* handed out more than the cool-down after the mark.
C4_ReturnedAfterExpiryPassed ==
    \A k \in DOMAIN pat_calls :
        pat_calls[k].waited # Absent => pat_calls[k].waited > 300

\* C4 as amended: a credential handed out after it was marked rate-limited is
\* handed out no earlier than the cool-down after the mark (at the expiry or
\* later).
C4_ReturnedNotBeforeExpiry ==
    \A k \in DOMAIN pat_calls :
        pat_calls[k].waited # Absent => pat_calls[k].waited >= 300

\* C4 witness: a credential that had been marked rate-limited was handed out
\* again, by a call that followed one that found every credential cooling.
C4_Witness ==
    \E k \in DOMAIN pat_calls :
        /\ pat_calls[k].waited # Absent
        /\ k > 1
        /\ pat_calls[k - 1].pat = NoPat

\* C5: a call of _get_available_pat returns none exactly when no credential
\* was usable; otherwise it returns a usable credential; it never examines
\* more than N credentials.
C5_NoneIffAllCooling ==
    \A k \in DOMAIN pat_calls :
        LET c == pat_calls[k] IN
        /\ c.pat = NoPat <=> c.usable = {}
        /\ c.usable # {} => \E i \in c.usable : pats[i] = c.pat
        /\ c.looked >= 1 /\ c.looked <= Len(pats)

\* C5 witness: of two credentials, a call skipped the cooling one and
\* returned the other, and the next call found both cooling.
C5_Witness ==
    /\ Len(pats) = 2
    /\ Len(pat_calls) = 2
    /\ pat_calls[1].pat # NoPat /\ pat_calls[1].looked = 2
    /\ pat_calls[2].pat = NoPat /\ pat_calls[2].looked = 2

\* C6: the engine is never invoked for a target that is in the completed set.
C6_CompletedNeverInvoked == ~scan.invoked_completed

\* C6 witness: a target named twice in the list was completed in the first
\* cycle and the second cycle has passed over it.
C6_Witness ==
    /\ cycle = 2 /\ pc = "run" /\ dom_idx = 2
    /\ targets[1] = targets[2]
    /\ scan.cycle = 1 /\ scan.idx = 1 /\ scan.state = "Completed"

\* C7: a scan_domain call whose engine invocations were all rate-limited
\* never makes more than MAX_RETRIES_PER_DOMAIN invocations, and once it has
\* ended it has made exactly that many, has ended exhausted, and its target
\* is neither in the completed set nor in the ledger.
C7_RetryCeiling ==
    scan.limited = scan.calls =>
        /\ scan.calls <= 3
        /\ scan.state \in {"Completed", "Failed", "Exhausted", "Crashed"} =>
              /\ scan.state = "Exhausted"
              /\ scan.calls = 3
              /\ scan.domain \notin completed_domains
              /\ \A i \in DOMAIN ledger : ledger[i] # scan.domain

\* C7 witness: a scan that ended exhausted after waiting for a credential.
C7_Witness ==
    /\ scan.state = "Exhausted"
    /\ scan.limited = 3
    /\ scan.waits > 0
    /\ Len(pats) = 2

\* C10: once an engine invocation has ended failed or timed out, the scan of
\* the target has ended as failed, no further invocation is made for it, the
\* target is not completed and the run goes on.
C10_FailureEndsTheScan ==
    /\ scan.after_failure = 0
    /\ scan.last \in {"Failed", "TimedOut"} =>
          /\ scan.state = "Failed"
          /\ scan.domain \notin completed_domains
          /\ pc \in {"run", "rest", "cycle"}

\* The text after is the text before followed by the line of target d.
LineWritten(before, after, d) ==
    /\ Len(after) = Len(before) + 1
    /\ \A k \in 1..(Len(before) - 1) : after[k] = before[k]
    /\ after[Len(before)] = before[Len(before)] \o d
    /\ after[Len(after)] = <<>>

\* C11: a step that hands a message to the endpoint and loses it goes on as
\* if it had been delivered: after a lost alert message the scan has ended
\* Completed, its target is in the completed set, its line has been written
\* to the ledger, and run() is at the next target; after a lost status message the cycle is
\* running, respectively resting.
C11_DeliveryFailureNeverPropagates ==
    [][\A i \in (Len(telegram) + 1)..Len(telegram') :
          LET m == telegram'[i] IN
          /\ (~m.ok /\ m.text.header \in {"alert", "continued"}) =>
                /\ scan'.state = "Completed"
                /\ m.text.domain = scan'.domain
                /\ m.text.domain \in completed_domains'
                /\ LineWritten(ledger, ledger', m.text.domain)
                /\ pc' = "run" /\ dom_idx' = dom_idx + 1
          /\ (~m.ok /\ m.text.header = "started") => pc' = "run"
          /\ (~m.ok /\ m.text.header = "pausing") => pc' = "rest"]_vars

\* C11 witness: the cycle has reached its rest after a scan whose alert
\* message was lost, and the message announcing the cycle was lost too.
C11_Witness ==
    /\ pc = "rest"
    /\ scan.state = "Completed"
    /\ \E i \in DOMAIN telegram :
          ~telegram[i].ok /\ telegram[i].text.header = "alert"
    /\ ~telegram[1].ok /\ telegram[1].text.header = "started"

\* The engine output holds a finding that the filter keeps.
KeepsSome(stdout) ==
    \E i \in DOMAIN stdout :
        /\ stdout[i].kind = "object"
        /\ stdout[i].value.Verified = "true"
        /\ stdout[i].value.shape \in {"github", "no_meta"}

\* The files of the latest scan and the ledger hold what a completed scan
\* of its output writes.
AllWritten ==
    /\ scan.domain \in DOMAIN results_files
    /\ KeepsSome(scan.stdout) => scan.domain \in DOMAIN verified_files
    /\ \E k \in DOMAIN ledger : ledger[k] = scan.domain

\* C12: once the engine has succeeded for a target, the scan is Completed
\* only with the raw results, the verified findings (when there are any) and
\* the ledger line written; when one of them is not written the scan has
\* ended in an exception that has left the scan and ended the process.
C12_WriteErrorsPropagate ==
    (scan.last = "Success" /\ scan.state # "Attempting") =>
        /\ scan.state \in {"Completed", "Crashed"}
        /\ scan.state = "Completed" => AllWritten
        /\ ~AllWritten => scan.state = "Crashed" /\ pc = "crashed"

\* C12 witness: the write of the ledger failed after the results, the
\* verified findings and the alert were out.
C12_Witness ==
    /\ scan.state = "Crashed"
    /\ scan.domain \in DOMAIN verified_files
    /\ \A k \in DOMAIN ledger : ledger[k] # scan.domain
    /\ \E i \in DOMAIN telegram : telegram[i].text.header = "alert"

\* C13 as claimed: a message that is followed by another one of the alert
\* was sent without the block that would have taken it beyond the ceiling,
\* and that block is the first one of the message that follows, which
\* begins with the continued header.
C13_FlushedWithoutTheBlock ==
    \A i \in DOMAIN AlertMessages :
        i < Len(AlertMessages) =>
            LET m == AlertMessages[i]
                next == AlertMessages[i + 1]
            IN  /\ MessageSize(m) <= 3000
                /\ next.header = "continued"
                /\ next.blocks # <<>>
                /\ MessageSize(m) + BlockSize(next.blocks[1]) > 3000

\* C13 as amended: a message that is followed by another one of the alert
\* was sent with the block that took it beyond the ceiling as its last
\* block; the message that follows begins with the continued header and its
\* blocks are those of the findings that come next, in order.
C13_FlushedWithTheBlock ==
    /\ \A i \in DOMAIN AlertMessages :
          LET m == AlertMessages[i] IN
          /\ m.header = (IF i = 1 THEN "alert" ELSE "continued")
          /\ m.blocks # <<>>
          /\ MessageSize(m) - BlockSize(m.blocks[Len(m.blocks)]) <= 3000
          /\ i < Len(AlertMessages) => MessageSize(m) > 3000
    /\ Alerted => BlocksOf(AlertMessages) = ExpectedBlocks(verified_files[scan.domain])

\* C13 witness: two blocks took the first message beyond the ceiling and
\* the block of the third finding is alone in the continued message.
C13_Witness ==
    /\ Len(AlertMessages) = 2
    /\ Len(AlertMessages[1].blocks) = 2
    /\ MessageSize(AlertMessages[1]) > 3000
    /\ MessageSize(AlertMessages[1]) - BlockSize(AlertMessages[1].blocks[2]) <= 3000
    /\ AlertMessages[2].header = "continued"
    /\ Len(AlertMessages[2].blocks) = 1
    /\ AlertMessages[2].blocks[1].commit_url = 40

\* Every line of the output is a JSON value or text that is not JSON.
Readable(stdout) ==
    \A i \in DOMAIN stdout : stdout[i].kind \in {"object", "other_json", "malformed"}

\* C14: a scan whose engine succeeded with an output of readable lines ends
\* Completed without an exception, whatever the shape of the records of the
\* output, and its verified findings hold no record whose source location
\* is not a mapping.
C14_UnexpectedShapesAreNotFatal ==
    (scan.last = "Success" /\ scan.state # "Attempting" /\ Readable(scan.stdout)) =>
        /\ scan.state = "Completed"
        /\ pc # "crashed"
        /\ scan.domain \in DOMAIN verified_files =>
              \A k \in DOMAIN verified_files[scan.domain] :
                  verified_files[scan.domain][k].shape \in {"github", "no_meta"}

\* C15: a rest window begins no earlier than the deadline of its cycle; a
\* cycle starts only where the scheduler is between cycles, and a cycle
\* other than the first starts only when the rest window that began at or
\* after the deadline of the cycle before has lasted BREAK_DURATION.
C15_CyclePacing ==
    /\ [](pc = "rest" => rest_from >= end_time /\ clock = rest_from)
    /\ [][cycle' # cycle =>
             /\ cycle' = cycle + 1
             /\ pc = "cycle"
             /\ cycle > 0 => rest_from >= end_time /\ clock >= rest_from + 3600
             /\ end_time' = clock + 21600]_vars

\* C15 witness: the second cycle is running after a first cycle that ran
\* past its deadline, and its own run ended before its deadline.
C15_Witness ==
    /\ cycle = 2
    /\ pc = "rest"
    /\ rest_from = end_time
    /\ end_time > 2 * 21600 + 3600

\* C16: a target whose scan ended Failed or Exhausted is not in the
\* completed set; and when run() comes to it in a later cycle, the step it
\* takes enters the scan of that target with no attempt counted and no
\* engine invocation made.
C16_OnlyCompletionIsRemembered ==
    /\ [](scan.state \in {"Failed", "Exhausted"} =>
             scan.domain \notin completed_domains)
    /\ [][(/\ pc = "run"
           /\ dom_idx <= Len(targets)
           /\ scan.state \in {"Failed", "Exhausted"}
           /\ scan.cycle < cycle
           /\ targets[dom_idx] = scan.domain)
          => (/\ pc' = "scan"
              /\ scan'.domain = scan.domain
              /\ scan'.cycle = cycle
              /\ scan'.state = "Attempting"
              /\ scan'.calls = 0
              /\ attempts' = 0)]_vars

\* C16 witness: in the second cycle the target is scanned again and the
\* engine has been invoked for it three times, as in a first scan.
C16_Witness ==
    /\ cycle = 2
    /\ scan.cycle = 2
    /\ scan.idx = 1
    /\ scan.state = "Exhausted"
    /\ scan.calls = 3

\* A wait for a credential never follows a _get_available_pat call that
\* returned none.
NeverWaitsTwiceInARow ==
    [][scan'.waits = scan.waits + 1 =>
          (pat_calls = <<>> \/ pat_calls[Len(pat_calls)].pat # NoPat)]_vars

\* C17 as claimed: every scan that has begun reaches Completed, Failed or
\* Exhausted, and no wait for a credential directly follows another.
C17_ScanReachesTerminalState ==
    /\ (scan.state = "Attempting") ~>
           (scan.state \in {"Completed", "Failed", "Exhausted"})
    /\ NeverWaitsTwiceInARow

\* C17 as amended: every scan that has begun ends: it reaches Completed,
\* Failed or Exhausted, or an exception raised while the output of a
\* successful invocation is processed leaves it and ends the process; no
\* wait for a credential directly follows another.
C17_ScanEnds ==
    /\ (scan.state = "Attempting") ~>
           (\/ scan.state \in {"Completed", "Failed", "Exhausted"}
            \/ scan.state = "Crashed" /\ scan.last = "Success" /\ pc = "crashed")
    /\ NeverWaitsTwiceInARow

\* C17 witness: the scan of the second target began with both credentials
\* cooling, waited once and ended.
C17_Witness ==
    /\ Len(pats) = 2
    /\ scan.idx = 2
    /\ scan.waits = 1
    /\ scan.calls = 1
    /\ scan.state \in {"Completed", "Failed"}

\* A code point that counts as white space.
Blank(c) ==
    \/ c \in 9..13 \/ c \in 28..32 \/ c \in 8192..8202
    \/ c \in {133, 160, 5760, 8232, 8233, 8239, 8287, 12288}

\* The names a piece of a ledger text holds: the stretches that begin and
\* end with a code point that is not white space, hold no carriage return,
\* and have nothing but white space between them and the carriage returns
\* or ends of the piece on either side.
NamesOf(piece) ==
    LET n == Len(piece)
        Name(i, j) ==
            /\ i <= j
            /\ ~Blank(piece[i]) /\ ~Blank(piece[j])
            /\ \A m \in i..j : piece[m] # 13
            /\ \A m \in 1..(i - 1) :
                  Blank(piece[m]) \/ \E k \in (m + 1)..(i - 1) : piece[k] = 13
            /\ \A m \in (j + 1)..n :
                  Blank(piece[m]) \/ \E k \in (j + 1)..(m - 1) : piece[k] = 13
    IN  {SubSeq(piece, ij[1], ij[2]) :
            ij \in {p \in (1..n) \X (1..n) : Name(p[1], p[2])}}

\* The names a ledger text holds.
LinesOf(file) == UNION {NamesOf(file[k]) : k \in DOMAIN file}

\* C18: the completed set is the set of the lines of the ledger at startup
\* plus the targets whose line the process has written to the ledger since:
\* it starts as the lines of the ledger, a target enters it in exactly the
\* steps that write its line, and the ledger changes in no other way; it
\* only grows; a target enters it only in a step whose engine invocation
\* succeeded and that wrote the raw results of the target; the line of a
\* target that is in the set is not written again.
C18_CompletedSetIsTheLedger ==
    /\ completed_domains = LinesOf(ledger)
    /\ [][/\ \A d \in DomainNames :
                d \in completed_domains' \ completed_domains
                    <=> LineWritten(ledger, ledger', d)
          /\ ledger' # ledger =>
                \E d \in DomainNames : LineWritten(ledger, ledger', d)]_vars
    /\ [][/\ completed_domains \subseteq completed_domains'
          /\ \A d \in completed_domains' \ completed_domains :
                /\ d = scan'.domain
                /\ scan'.last = "Success"
                /\ scan'.calls = scan.calls + 1
                /\ d \in DOMAIN results_files']_vars

\* C19: every alert message handed to the endpoint holds a finding block,
\* and an alert whose findings all lack a permalink hands over no message.
C19_NoHeaderOnlyAlert ==
    /\ \A i \in DOMAIN AlertMessages : Len(AlertMessages[i].blocks) >= 1
    /\ Alerted =>
          (WithPermalink(verified_files[scan.domain]) = <<>> => AlertMessages = <<>>)

\* C19 witness: the block of the last finding took the only message beyond
\* the ceiling, and no message follows it.
C19_Witness ==
    /\ Alerted
    /\ Len(WithPermalink(verified_files[scan.domain])) = 2
    /\ Len(AlertMessages) = 1
    /\ MessageSize(AlertMessages[1]) > 3000

\* The latest _get_available_pat call, in a step that made one.
LatestCall == pat_calls'[Len(pat_calls')]
CallMade == scan'.calls = scan.calls + 1 \/ scan'.waits = scan.waits + 1

\* C20: the cursor is an index of the credential list, which never changes;
\* a call that returns none leaves the cursor and the cool-down map as they
\* were; a call that returns a credential leaves the cursor one past it
\* (mod N), leaves the entries of the other credentials as they were and
\* removes the entry of the returned one (the step holds a new entry for it
\* only when its invocation was rate-limited).
C20_CursorAndFrame ==
    /\ [](current_pat_index \in 0..(Len(pats) - 1))
    /\ [][pats' = pats]_vars
    /\ [][(CallMade /\ LatestCall.pat = NoPat) =>
             /\ current_pat_index' = current_pat_index
             /\ rate_limited_pats' = rate_limited_pats]_vars
    /\ [][(CallMade /\ LatestCall.pat # NoPat) =>
             /\ \E i \in 0..(Len(pats) - 1) :
                   /\ pats[i + 1] = LatestCall.pat
                   /\ current_pat_index' = (i + 1) % Len(pats)
             /\ \A p \in (DOMAIN rate_limited_pats \cup DOMAIN rate_limited_pats')
                         \ {LatestCall.pat} :
                   /\ p \in DOMAIN rate_limited_pats
                   /\ p \in DOMAIN rate_limited_pats'
                   /\ rate_limited_pats'[p] = rate_limited_pats[p]
             /\ LatestCall.pat \in DOMAIN rate_limited_pats' =>
                   /\ scan'.last = "RateLimited"
                   /\ rate_limited_pats'[LatestCall.pat] >= clock + 300]_vars

\* C20 witness: with the cursor on the second of two credentials a call
\* returned none and left it there; the next call returned a credential
\* whose cool-down had run out, and only the other one's entry is left.
C20_Witness ==
    /\ Len(pats) = 2
    /\ Len(pat_calls) = 2
    /\ pat_calls[1].pat = NoPat
    /\ pat_calls[1].index = 1
    /\ pat_calls[1].next = 1
    /\ pat_calls[2].waited # Absent
    /\ scan.last \in {"Success", "Failed"}
    /\ DOMAIN rate_limited_pats = {p \in {pats[1], pats[2]} : p # pat_calls[2].pat}

====
